---- MODULE Spec2Model ----
(***************************************************************************)
(* Game-state engine of src/main.py: the frame loop of main() with the     *)
(* obstacle game ("Titanic"), the sequence game ("Memory") and the mode    *)
(* selector.  One step of the model is one iteration of the while loop     *)
(* (main.py 379-891): the KEYDOWN events, the combined up/down levels, the *)
(* branch of the state machine for the current state, and the update of    *)
(* the prev_move_* flags.  Drawing is left out: it assigns no game state.  *)
(*                                                                         *)
(* Numbers.  Pixels and milliseconds are integers.  The two floats of the  *)
(* code are kept exact as rationals over the denominator of                *)
(* dt = dt_ms / 16.6667 = dt_ms * 10000 / 166667:                          *)
(*   - Player.update rounds dy = 4.5 * dt, that is 45000*dt_ms / 166667;   *)
(*   - IcebergPair.x is held in units of 1/166667 pixel, so that           *)
(*     x -= speed * dt subtracts (400 + 45*(level-1)) * dt_ms * 100.       *)
(* 166667 is odd and not a divisor of the numerators that occur, so no     *)
(* rounding tie and no exact integer x other than the spawn position is    *)
(* met: the binary floats of the code round as the rationals do.           *)
(***************************************************************************)
EXTENDS Integers, Sequences, FiniteSets, TLC

VARIABLES
    state,                  \* main.py 374
    now,                    \* pygame.time.get_ticks() of the current frame
    move_up, move_down,     \* main.py 383, 417-427: combined levels of the frame
    prev_move_up, prev_move_down,               \* main.py 375-376, 890-891
    pressed_up, pressed_down,                   \* main.py 430-431: locals of main
    player,                 \* Player.rect: [x, y, w, h]
    icebergs,               \* list of IcebergPair
    score, next_spawn, lives_left,              \* main.py 360
    hit,                    \* main.py 479: local of main, kept between frames
    level, gap, speed, spawn_interval_ms,       \* main.py 458-466: locals of main
    mem_level, mem_best_level, mem_sequence, mem_show_index,
    mem_showing_arrow, mem_last_change, mem_player_inputs,
    mem_last_input_time, mem_mismatch_positions, \* main.py 363-371
    key,                    \* main.py 390-415: the KEYDOWN event of the frame
    h_generated,            \* history: the clock reading mem_sequence was generated at
    h_spawned,              \* history: the pairs spawned since reset_titanic
    h_spawn_at,             \* history: the clock reading of the last spawn since
                            \*          the list was last emptied (-1: none)
    h_grace_from            \* history: the clock reading of the last reset_titanic
                            \*          or respawn

inputVars   == <<move_up, move_down, prev_move_up, prev_move_down,
                 pressed_up, pressed_down, key>>
titanicVars == <<player, icebergs, score, next_spawn, lives_left>>
localVars   == <<hit, level, gap, speed, spawn_interval_ms>>
memVars     == <<mem_level, mem_best_level, mem_sequence, mem_show_index,
                 mem_showing_arrow, mem_last_change, mem_player_inputs,
                 mem_last_input_time, mem_mismatch_positions>>
spawnHist   == <<h_spawned, h_spawn_at, h_grace_from>>
histVars    == <<h_generated, spawnHist>>
vars == <<state, now, inputVars, titanicVars, localVars, memVars, histVars>>

----------------------------------------------------------------------------
(* Program constants *)

WIDTH  == 960
HEIGHT == 540
PIPE_WIDTH == 120
PIPE_GAP_BASE == 220
PIPE_BASE_SPEED == 400          \* 4.0, in hundredths
PIPE_SPAWN_BASE_MS == 1500
PLAYER_SPEED == 45              \* 4.5, in tenths
PLAYER_MARGIN_TOP_BOTTOM == 20
INITIAL_LIVES == 3
MEM_SHOW_MS == 650
MEM_GAP_MS == 350
MEM_DEBOUNCE_MS == 200
MEM_SUCCESS_MS == 1000
RESPAWN_GRACE_MS == 1000
PLAYER_HEIGHT == 64             \* target_h of create_player
STAR_SIZE == 32                 \* star_img is loaded at (32, 32)
GAP_Y_MIN == 140                \* random.randint(140, HEIGHT - 140)
DT_DEN == 166667                \* dt = dt_ms / 16.6667

----------------------------------------------------------------------------
(* Bounds of the model *)

MaxSeconds == 17                \* Spec: frames are taken while the clock is within it
MaxMemoryTenths == 54           \* SpecMemory: the same, in tenths of a second
MaxScoredSeconds == 5           \* SpecDifficulty: the same
MaxScore == 60                  \* SpecDifficulty: the scores a session starts from
ShipWidth == 96                 \* width of the scaled ship image (an asset)
MaxRoundsSeconds == 10          \* SpecRounds: frames are taken while the clock is within it
MaxSessionTenths == 43          \* SpecSession: the same, in tenths of a second
MaxPacedTenths == 55            \* SpecPaced: the same, in tenths of a second

GapYChoices == {GAP_Y_MIN, HEIGHT \div 2}     \* values of random.randint(140, 400)

\* A profile of the frames: the values clock.tick(FPS) returns (a frame takes
\* at least 1000/60 ms and as long as the machine needs) and the clock
\* reading up to which frames are taken.
Coarse == [dts |-> {1700}, horizon |-> MaxSeconds * 1000]
Fine   == [dts |-> {100}, horizon |-> MaxMemoryTenths * 100]
Scored == [dts |-> {1700}, horizon |-> MaxScoredSeconds * 1000]
Rounds == [dts |-> {400}, horizon |-> MaxRoundsSeconds * 1000]
Steady == [dts |-> {250}, horizon |-> MaxSessionTenths * 100]
Paced  == [dts |-> {500}, horizon |-> MaxPacedTenths * 100]

\* the frame times Player.update is tried with on its own (ms)
PlayerDts == {0, 16, 17, 50, 1000, 30000}

----------------------------------------------------------------------------
(* Arithmetic of the code *)

Max(a, b) == IF a >= b THEN a ELSE b
Min(a, b) == IF a <= b THEN a ELSE b

\* int(n/d) for d > 0: truncation toward zero
IntTrunc(n, d) == IF n >= 0 THEN n \div d ELSE -((-n) \div d)

\* round(n/d) for d > 0: Python 3 rounds a tie to the even neighbour
PyRound(n, d) ==
    LET a == IF n >= 0 THEN n ELSE -n
        q == a \div d
        r == a % d
        m == IF 2 * r > d THEN q + 1
             ELSE IF 2 * r < d THEN q
             ELSE IF q % 2 = 0 THEN q ELSE q + 1
    IN  IF n >= 0 THEN m ELSE -m

\* pygame.Rect.inflate(dx, dy): C integer division of dx, dy by 2
Inflate(r, dx, dy) ==
    [x |-> r.x - IntTrunc(dx, 2), y |-> r.y - IntTrunc(dy, 2),
     w |-> r.w + dx, h |-> r.h + dy]

\* pygame.Rect.colliderect for rectangles of positive size
CollideRect(a, b) ==
    /\ a.w > 0 /\ a.h > 0 /\ b.w > 0 /\ b.h > 0
    /\ a.x < b.x + b.w /\ b.x < a.x + a.w
    /\ a.y < b.y + b.h /\ b.y < a.y + a.h

----------------------------------------------------------------------------
(* Difficulty *)

compute_level_NoCap(s) == Max(1, s \div 5 + 1)
compute_level(s) == Max(1, Min(10, s \div 5 + 1))

GapOf_OffByOne(l) == Max(140, PIPE_GAP_BASE - l * 8)
GapOf(l)           == Max(140, PIPE_GAP_BASE - (l - 1) * 8)
SpeedOf(l)         == PIPE_BASE_SPEED + (l - 1) * 45
SpawnIntervalOf_Short(l) == Max(700, PIPE_SPAWN_BASE_MS - l * 80)
SpawnIntervalOf(l) == Max(700, PIPE_SPAWN_BASE_MS - (l - 1) * 80)

----------------------------------------------------------------------------
(* Player *)

create_player ==
    [x |-> WIDTH \div 4 - ShipWidth \div 2,
     y |-> HEIGHT \div 2 - PLAYER_HEIGHT \div 2,
     w |-> ShipWidth, h |-> PLAYER_HEIGHT]

ClampTop(y) ==
    IF y < PLAYER_MARGIN_TOP_BOTTOM THEN PLAYER_MARGIN_TOP_BOTTOM ELSE y

ClampBottom_NoMargin(y, h) == IF y + h > HEIGHT THEN HEIGHT - h ELSE y

ClampBottom(y, h) ==
    IF y + h > HEIGHT - PLAYER_MARGIN_TOP_BOTTOM
    THEN HEIGHT - PLAYER_MARGIN_TOP_BOTTOM - h ELSE y

PlayerUpdate(p, up, down, dt_ms) ==
    LET dyNum == (IF down THEN PLAYER_SPEED * 1000 * dt_ms ELSE 0)
                 - (IF up THEN PLAYER_SPEED * 1000 * dt_ms ELSE 0)
        y1 == p.y + PyRound(dyNum, DT_DEN)
    IN  [p EXCEPT !.y = ClampBottom(ClampTop(y1), p.h)]

PlayerCollisionRect(p) ==
    Inflate(p, -((p.w * 2) \div 10), -((p.h * 2) \div 10))

----------------------------------------------------------------------------
(* IcebergPair *)

XInt(ib) == IntTrunc(ib.x, DT_DEN)                      \* int(self.x)

IcebergRects(ib) ==
    LET top_height == ib.gap_y - ib.gap \div 2
        bottom_y   == ib.gap_y + ib.gap \div 2
    IN  <<[x |-> XInt(ib), y |-> 0, w |-> ib.width, h |-> top_height],
          [x |-> XInt(ib), y |-> bottom_y, w |-> ib.width,
           h |-> HEIGHT - bottom_y]>>

ShrinkX_Full(rect) == rect

ShrinkX(rect) ==
    LET new_w == rect.w \div 100                        \* int(width * 0.01)
    IN  IF new_w <= 0 THEN rect ELSE Inflate(rect, -(rect.w - new_w), 0)

CollisionRects(ib) ==
    <<ShrinkX(IcebergRects(ib)[1]), ShrinkX(IcebergRects(ib)[2])>>

IcebergUpdate(ib, spd, dt_ms) == [ib EXCEPT !.x = ib.x - spd * dt_ms * 100]

IsOffScreen_Left(ib) == ib.x < -10 * DT_DEN
IsOffScreen(ib) == ib.x + ib.width * DT_DEN < -10 * DT_DEN

\* the rectangle of an uncollected star: centred at (int(x + width/2), int(star_y))
StarRect(ib) ==
    [x |-> IntTrunc(ib.x + (ib.width \div 2) * DT_DEN, DT_DEN) - STAR_SIZE \div 2,
     y |-> ib.star_y - STAR_SIZE \div 2, w |-> STAR_SIZE, h |-> STAR_SIZE]

\* the values int(star_y) of create_iceberg_pair can take, cut to the two ends
\* and the middle of the interval random.uniform draws from
StarYChoices(gap_y, g) ==
    LET star_margin  == STAR_SIZE \div 2 + 8
        top_limit    == gap_y - g \div 2 + star_margin
        bottom_limit == gap_y + g \div 2 - star_margin
    IN  IF top_limit >= bottom_limit THEN {gap_y}
        ELSE {top_limit, gap_y, bottom_limit}

create_iceberg_pair(gap_y, g, star_y) ==
    [x |-> (WIDTH + 40) * DT_DEN, gap_y |-> gap_y, width |-> PIPE_WIDTH,
     gap |-> g, star_y |-> star_y, star_collected |-> FALSE]

----------------------------------------------------------------------------
(* Initial state: main.py 354-376 *)

InputInit ==
    /\ move_up = FALSE /\ move_down = FALSE
    /\ prev_move_up = FALSE /\ prev_move_down = FALSE
    /\ pressed_up = FALSE /\ pressed_down = FALSE
    /\ key = "none"

\* nothing generated and nothing spawned yet
HistoryInit ==
    /\ h_generated = 0
    /\ h_spawned = 0 /\ h_spawn_at = -1 /\ h_grace_from = now

\* reset_titanic at main.py 360; the locals of the playing branch are not
\* assigned yet (0 and FALSE stand for that)
TitanicInit ==
    /\ player = create_player
    /\ icebergs = <<>>
    /\ next_spawn = now + RESPAWN_GRACE_MS
    /\ lives_left = INITIAL_LIVES
    /\ hit = FALSE /\ level = 0 /\ gap = 0 /\ speed = 0 /\ spawn_interval_ms = 0

MemoryInit ==
    /\ mem_level = 1
    /\ mem_best_level = 0
    /\ mem_sequence = <<>>
    /\ mem_show_index = 0
    /\ mem_showing_arrow = FALSE
    /\ mem_last_change = 0
    /\ mem_player_inputs = <<>>
    /\ mem_last_input_time = 0
    /\ mem_mismatch_positions = <<>>

Init ==
    /\ state = "mode_select"
    /\ now = 0
    /\ score = 0
    /\ InputInit
    /\ TitanicInit
    /\ MemoryInit
    /\ HistoryInit

----------------------------------------------------------------------------
(* The part of a frame every state shares: the clock, the combined levels *)
(* (main.py 380-427) and the update of the prev flags (main.py 889-891).  *)

\* main.py 429-431: the rising edge of a level against the frame before
Pressed_Level(cur, prev) == cur
Pressed(cur, prev) == cur /\ ~prev

\* main.py 889-891
PrevAfterFrame(cur, prev) == cur

\* main.py 390-415: the KEYDOWN event a frame handles.  "restart" stands for
\* SPACE, RETURN or R and "m" for M; the handlers exist only for the two
\* game-over states, so the frames of the other states are taken with
\* "none", but for the menu of the obstacle game, whose screen names M.
MenuKeys == {"none", "m"}

Frame(dt_ms, up, down, k, pf) ==
    /\ now + dt_ms <= pf.horizon
    /\ key' = k
    /\ now' = now + dt_ms
    /\ move_up' = up
    /\ move_down' = down
    /\ pressed_up' = Pressed(up, prev_move_up)
    /\ pressed_down' = Pressed(down, prev_move_down)
    /\ prev_move_up' = PrevAfterFrame(up, prev_move_up)
    /\ prev_move_down' = PrevAfterFrame(down, prev_move_down)

----------------------------------------------------------------------------
(* reset_titanic, main.py 250-256, called at clock reading t *)

ResetLives == INITIAL_LIVES

ResetTitanic_KeepsScore(t) ==
    [player |-> create_player, icebergs |-> <<>>, score |-> score,
     next_spawn |-> t + RESPAWN_GRACE_MS, lives_left |-> ResetLives]

ResetTitanic(t) ==
    [player |-> create_player, icebergs |-> <<>>, score |-> 0,
     next_spawn |-> t + RESPAWN_GRACE_MS, lives_left |-> ResetLives]

MemReset_ClearsBest ==
    /\ mem_level' = 1
    /\ mem_sequence' = <<>>
    /\ mem_show_index' = 0
    /\ mem_showing_arrow' = FALSE
    /\ mem_last_change' = 0
    /\ mem_player_inputs' = <<>>
    /\ mem_last_input_time' = 0
    /\ mem_mismatch_positions' = <<>>
    /\ mem_best_level' = 0

\* the memory reset of main.py 405-412 and 442-449
MemReset ==
    /\ mem_level' = 1
    /\ mem_sequence' = <<>>
    /\ mem_show_index' = 0
    /\ mem_showing_arrow' = FALSE
    /\ mem_last_change' = 0
    /\ mem_player_inputs' = <<>>
    /\ mem_last_input_time' = 0
    /\ mem_mismatch_positions' = <<>>
    /\ UNCHANGED mem_best_level

----------------------------------------------------------------------------
(* mode_select, main.py 434-450 *)

ModeSelectLogic(up, down, t) ==
    IF up THEN
        LET r == ResetTitanic(t) IN
        /\ state' = "titanic_menu"
        /\ player' = r.player /\ icebergs' = r.icebergs /\ score' = r.score
        /\ next_spawn' = r.next_spawn /\ lives_left' = r.lives_left
        /\ h_spawned' = 0 /\ h_spawn_at' = -1 /\ h_grace_from' = t
        /\ UNCHANGED <<localVars, memVars, h_generated>>
    ELSE IF down THEN
        /\ state' = "memory_ready"
        /\ MemReset
        /\ UNCHANGED <<titanicVars, localVars, histVars>>
    ELSE
        /\ state' = "mode_select"
        /\ UNCHANGED <<titanicVars, localVars, memVars, histVars>>

----------------------------------------------------------------------------
(* titanic_playing, main.py 457-505, on the session state (p0, ibs0, sc0,  *)
(* ns0, lv0) at clock reading t.                                           *)

MapUpdate(ibs, spd, dt_ms) ==
    [i \in 1..Len(ibs) |-> IcebergUpdate(ibs[i], spd, dt_ms)]

NotOffScreen(ib) == ~IsOffScreen(ib)

\* main.py 479-485
IcebergHit(p, ibs) ==
    \E i \in 1..Len(ibs) :
        \/ CollideRect(PlayerCollisionRect(p), CollisionRects(ibs[i])[1])
        \/ CollideRect(PlayerCollisionRect(p), CollisionRects(ibs[i])[2])

OutOfBounds_AtMargin(p) ==
    \/ p.y <= PLAYER_MARGIN_TOP_BOTTOM
    \/ p.y + p.h >= HEIGHT - PLAYER_MARGIN_TOP_BOTTOM

\* main.py 487
OutOfBounds(p) == p.y <= 0 \/ p.y + p.h >= HEIGHT

LivesAfterHit_Kept(l) == l
LivesAfterHit(l) == l - 1
IsGameOver(l) == l <= 0

StarTouched_Again(p, ib) == CollideRect(p, StarRect(ib))

\* main.py 499-505, pair by pair
StarTouched(p, ib) == ~ib.star_collected /\ CollideRect(p, StarRect(ib))

CollectStars(p, ibs) ==
    [i \in 1..Len(ibs) |->
        IF StarTouched(p, ibs[i])
        THEN [ibs[i] EXCEPT !.star_collected = TRUE] ELSE ibs[i]]

StarsGained_Shrunk(p, ibs) ==
    Cardinality({i \in 1..Len(ibs) :
                    StarTouched(PlayerCollisionRect(p), ibs[i])})

StarsGained(p, ibs) ==
    Cardinality({i \in 1..Len(ibs) : StarTouched(p, ibs[i])})

RespawnDeadline_NoGrace(t) == t
RespawnDeadline(t) == t + RESPAWN_GRACE_MS

\* the draws of random.randint and random.uniform for a pair of gap g
Draws(g) == UNION {{<<gy, sy>> : sy \in StarYChoices(gy, g)} : gy \in GapYChoices}

\* main.py 469-476: the spawn, the advance and the prune
Spawned(ibs, spawn, g, d) ==
    IF spawn THEN Append(ibs, create_iceberg_pair(d[1], g, d[2])) ELSE ibs

AdvanceAndPrune(ibs, spd, dt_ms) ==
    SelectSeq(MapUpdate(ibs, spd, dt_ms), NotOffScreen)

PlayingLogic(p0, ibs0, sc0, ns0, lv0, h0, up, down, dt_ms, t) ==
    /\ level' = compute_level(sc0)
    /\ gap' = GapOf(level')
    /\ speed' = SpeedOf(level')
    /\ spawn_interval_ms' = SpawnIntervalOf(level')
    /\ \E d \in (IF t >= ns0 THEN Draws(gap') ELSE {<<0, 0>>}),
          p1 \in {PlayerUpdate(p0, up, down, dt_ms)} :
       \E ibs3 \in {AdvanceAndPrune(Spawned(ibs0, t >= ns0, gap', d),
                                    speed', dt_ms)} :
          /\ hit' = (IcebergHit(p1, ibs3) \/ OutOfBounds(p1))
          /\ lives_left' = IF hit' THEN LivesAfterHit(lv0) ELSE lv0
          /\ state' = IF hit' /\ IsGameOver(lives_left')
                      THEN "titanic_game_over" ELSE "titanic_playing"
          /\ IF hit' /\ state' = "titanic_playing"
             THEN /\ player' = create_player
                  /\ icebergs' = <<>>
                  /\ next_spawn' = RespawnDeadline(t)
                  /\ score' = sc0
             ELSE /\ player' = p1
                  /\ next_spawn' = IF t >= ns0 THEN t + spawn_interval_ms' ELSE ns0
                  /\ icebergs' = IF state' = "titanic_playing"
                                 THEN CollectStars(p1, ibs3) ELSE ibs3
                  /\ score' = IF state' = "titanic_playing"
                              THEN sc0 + StarsGained(p1, ibs3) ELSE sc0
    /\ h_spawned' = IF t >= ns0 THEN h0.spawned + 1 ELSE h0.spawned
    /\ h_spawn_at' = IF hit' /\ state' = "titanic_playing" THEN -1
                     ELSE IF t >= ns0 THEN t ELSE h0.spawn_at
    /\ h_grace_from' = IF hit' /\ state' = "titanic_playing" THEN t
                       ELSE h0.grace_from
    /\ UNCHANGED <<memVars, h_generated>>

----------------------------------------------------------------------------
(* The frames, by the state they start in *)

ModeSelectTick(pf) ==
    \E dt_ms \in pf.dts, up \in BOOLEAN, down \in BOOLEAN :
        /\ state = "mode_select"
        /\ Frame(dt_ms, up, down, "none", pf)
        /\ ModeSelectLogic(up, down, now')

\* titanic_menu, main.py 453-455; start: SPACE or RETURN is held
TitanicMenuTick(pf) ==
    \E dt_ms \in pf.dts, up \in BOOLEAN, down \in BOOLEAN, start \in BOOLEAN,
       k \in MenuKeys :
        /\ state = "titanic_menu"
        /\ Frame(dt_ms, up, down, k, pf)
        /\ state' = IF start \/ up \/ down THEN "titanic_playing" ELSE state
        /\ UNCHANGED <<titanicVars, localVars, memVars, histVars>>

TitanicPlayingTick(pf) ==
    \E dt_ms \in pf.dts, up \in BOOLEAN, down \in BOOLEAN :
        /\ state = "titanic_playing"
        /\ Frame(dt_ms, up, down, "none", pf)
        /\ PlayingLogic(player, icebergs, score, next_spawn, lives_left,
                        [spawned |-> h_spawned, spawn_at |-> h_spawn_at,
                         grace_from |-> h_grace_from],
                        up, down, dt_ms, now')

\* titanic_game_over, main.py 394-401 and 507-508
TitanicGameOverTick(pf) ==
    \E dt_ms \in pf.dts, up \in BOOLEAN, down \in BOOLEAN :
        /\ state = "titanic_game_over"
        /\ Frame(dt_ms, up, down, "none", pf)
        /\ UNCHANGED <<state, titanicVars, localVars, memVars, histVars>>

\* SPACE, RETURN or R on the game-over screen: reset_titanic, and the same
\* frame goes on as a titanic_playing frame
TitanicRestart(pf) ==
    \E dt_ms \in pf.dts, up \in BOOLEAN, down \in BOOLEAN :
        /\ state = "titanic_game_over"
        /\ Frame(dt_ms, up, down, "restart", pf)
        /\ LET r == ResetTitanic(now') IN
           PlayingLogic(r.player, r.icebergs, r.score, r.next_spawn,
                        r.lives_left,
                        [spawned |-> 0, spawn_at |-> -1, grace_from |-> now'],
                        up, down, dt_ms, now')

\* M on a game-over screen: mode_select, and the same frame goes on as a
\* mode_select frame
ReturnToSelector(pf) ==
    \E dt_ms \in pf.dts, up \in BOOLEAN, down \in BOOLEAN :
        /\ state \in {"titanic_game_over", "memory_game_over"}
        /\ Frame(dt_ms, up, down, "m", pf)
        /\ ModeSelectLogic(up, down, now')

----------------------------------------------------------------------------
(* memory_ready, main.py 511-519, for level lvl at clock reading t.  The   *)
(* callers say what mem_level, mem_best_level and mem_last_input_time are. *)

Sequences_OffByOne(n) == [1..(n + 1) -> {"U", "D"}]
Sequences(n) == [1..n -> {"U", "D"}]

ReadyLogic(lvl, t) ==
    \E seq \in Sequences(lvl) :
        /\ mem_sequence' = seq
        /\ mem_show_index' = 0
        /\ mem_showing_arrow' = TRUE
        /\ mem_last_change' = t
        /\ mem_player_inputs' = <<>>
        /\ mem_mismatch_positions' = <<>>
        /\ h_generated' = t
        /\ state' = "memory_show"

MemoryReadyTick(pf) ==
    \E dt_ms \in pf.dts, up \in BOOLEAN, down \in BOOLEAN :
        /\ state = "memory_ready"
        /\ Frame(dt_ms, up, down, "none", pf)
        /\ ReadyLogic(mem_level, now')
        /\ UNCHANGED <<mem_level, mem_best_level, mem_last_input_time>>
        /\ UNCHANGED <<titanicVars, localVars, spawnHist>>

\* memory_show, main.py 521-535
ShowElapsed_Gap(t) == t - mem_last_change >= MEM_GAP_MS
ShowElapsed(t)  == t - mem_last_change >= MEM_SHOW_MS
GapElapsed(t)   == t - mem_last_change >= MEM_GAP_MS
ShowDone(index) == index >= Len(mem_sequence)

MemoryShowTick(pf) ==
    \E dt_ms \in pf.dts, up \in BOOLEAN, down \in BOOLEAN :
        /\ state = "memory_show"
        /\ Frame(dt_ms, up, down, "none", pf)
        /\ IF mem_showing_arrow THEN
               /\ IF ShowElapsed(now')
                  THEN mem_showing_arrow' = FALSE /\ mem_last_change' = now'
                  ELSE UNCHANGED <<mem_showing_arrow, mem_last_change>>
               /\ UNCHANGED <<state, mem_show_index, mem_player_inputs>>
           ELSE IF GapElapsed(now') THEN
               /\ mem_show_index' = mem_show_index + 1
               /\ IF ShowDone(mem_show_index + 1)
                  THEN /\ mem_player_inputs' = <<>>
                       /\ state' = "memory_input"
                       /\ UNCHANGED <<mem_showing_arrow, mem_last_change>>
                  ELSE /\ mem_showing_arrow' = TRUE
                       /\ mem_last_change' = now'
                       /\ UNCHANGED <<state, mem_player_inputs>>
           ELSE UNCHANGED <<state, mem_show_index, mem_showing_arrow,
                            mem_last_change, mem_player_inputs>>
        /\ UNCHANGED <<mem_level, mem_best_level, mem_sequence,
                       mem_last_input_time, mem_mismatch_positions>>
        /\ UNCHANGED <<titanicVars, localVars, histVars>>

\* memory_input, main.py 537-568
DebounceElapsed_Strict(t) == t - mem_last_input_time > MEM_DEBOUNCE_MS
DebounceElapsed(t) == t - mem_last_input_time >= MEM_DEBOUNCE_MS

\* main.py 540-545: "none" stands for None
Step(p_up, p_down, t) ==
    IF DebounceElapsed(t)
    THEN IF p_up THEN "U" ELSE IF p_down THEN "D" ELSE "none"
    ELSE "none"

BufferComplete(inputs) == Len(inputs) >= Len(mem_sequence)

\* main.py 552-556: the indices, counted from 0, where inputs and seq differ
Mismatch_First(inputs, seq) ==
    LET Differs(i) == inputs[i + 1] # seq[i + 1]
        all == SelectSeq([i \in 1..Len(seq) |-> i - 1], Differs)
    IN  IF all = <<>> THEN all ELSE <<all[1]>>

Mismatch(inputs, seq) ==
    LET Differs(i) == inputs[i + 1] # seq[i + 1]
    IN  SelectSeq([i \in 1..Len(seq) |-> i - 1], Differs)

BestAfterFailure_Last(best, lvl) == Max(lvl - 1, 0)
BestAfterFailure_Level(best, lvl) == Max(best, lvl)
BestAfterFailure(best, lvl) == Max(best, Max(lvl - 1, 0))
BestAfterSuccess_Stale(best, lvl) == Max(best, lvl - 1)
BestAfterSuccess(best, lvl) == Max(best, lvl)
LevelAfterSuccess_Skip(lvl) == lvl + 2
LevelAfterSuccess(lvl) == lvl + 1

MemoryInputTick(pf) ==
    \E dt_ms \in pf.dts, up \in BOOLEAN, down \in BOOLEAN :
        /\ state = "memory_input"
        /\ Frame(dt_ms, up, down, "none", pf)
        /\ LET step   == Step(pressed_up', pressed_down', now')
               inputs == Append(mem_player_inputs, step)
           IN  IF step = "none" THEN
                   UNCHANGED <<state, memVars>>
               ELSE
                   /\ mem_last_input_time' = now'
                   /\ mem_player_inputs' = inputs
                   /\ IF ~BufferComplete(inputs) THEN
                          UNCHANGED <<state, mem_level, mem_best_level,
                                      mem_last_change, mem_mismatch_positions>>
                      ELSE IF Mismatch(inputs, mem_sequence) # <<>> THEN
                          /\ mem_mismatch_positions' =
                                 Mismatch(inputs, mem_sequence)
                          /\ mem_best_level' =
                                 BestAfterFailure(mem_best_level, mem_level)
                          /\ state' = "memory_game_over"
                          /\ UNCHANGED <<mem_level, mem_last_change>>
                      ELSE
                          /\ mem_best_level' =
                                 BestAfterSuccess(mem_best_level, mem_level)
                          /\ mem_level' = LevelAfterSuccess(mem_level)
                          /\ mem_last_change' = now'
                          /\ state' = "memory_success"
                          /\ UNCHANGED mem_mismatch_positions
                   /\ UNCHANGED <<mem_sequence, mem_show_index,
                                  mem_showing_arrow>>
        /\ UNCHANGED <<titanicVars, localVars, histVars>>

SuccessElapsed_Strict(t) == t - mem_last_change > MEM_SUCCESS_MS

\* memory_success, main.py 570-574
SuccessElapsed(t) == t - mem_last_change >= MEM_SUCCESS_MS

MemorySuccessTick(pf) ==
    \E dt_ms \in pf.dts, up \in BOOLEAN, down \in BOOLEAN :
        /\ state = "memory_success"
        /\ Frame(dt_ms, up, down, "none", pf)
        /\ state' = IF SuccessElapsed(now') THEN "memory_ready" ELSE state
        /\ UNCHANGED <<titanicVars, localVars, memVars, histVars>>

MemoryGameOverTick_Replays(pf) ==
    \E dt_ms \in pf.dts, up \in BOOLEAN, down \in BOOLEAN :
        /\ state = "memory_game_over"
        /\ Frame(dt_ms, up, down, "none", pf)
        /\ state' = IF up \/ down THEN "memory_ready" ELSE state
        /\ UNCHANGED <<titanicVars, localVars, memVars, histVars>>

\* memory_game_over, main.py 403-415 and 576-577
MemoryGameOverTick(pf) ==
    \E dt_ms \in pf.dts, up \in BOOLEAN, down \in BOOLEAN :
        /\ state = "memory_game_over"
        /\ Frame(dt_ms, up, down, "none", pf)
        /\ UNCHANGED <<state, titanicVars, localVars, memVars, histVars>>

\* SPACE, RETURN or R on the memory game-over screen: the reset of main.py
\* 405-413, and the same frame goes on as a memory_ready frame
MemoryRestart(pf) ==
    \E dt_ms \in pf.dts, up \in BOOLEAN, down \in BOOLEAN :
        /\ state = "memory_game_over"
        /\ Frame(dt_ms, up, down, "restart", pf)
        /\ mem_level' = 1
        /\ mem_last_input_time' = 0
        /\ ReadyLogic(1, now')
        /\ UNCHANGED mem_best_level
        /\ UNCHANGED <<titanicVars, localVars, spawnHist>>

----------------------------------------------------------------------------
(* The whole program, in frames long enough for a session of the obstacle *)
(* game to run to its end                                                 *)

Next ==
    \/ ModeSelectTick(Coarse)
    \/ TitanicMenuTick(Coarse)
    \/ TitanicPlayingTick(Coarse)
    \/ TitanicGameOverTick(Coarse)
    \/ TitanicRestart(Coarse)
    \/ ReturnToSelector(Coarse)
    \/ MemoryReadyTick(Coarse)
    \/ MemoryShowTick(Coarse)
    \/ MemoryInputTick(Coarse)
    \/ MemorySuccessTick(Coarse)
    \/ MemoryGameOverTick(Coarse)
    \/ MemoryRestart(Coarse)

Spec == Init /\ [][Next]_vars

(* The selector and the sequence game, in frames short enough to meet the *)
(* thresholds of its timers from both sides                               *)

NextMemory ==
    \/ ModeSelectTick(Fine)
    \/ ReturnToSelector(Fine)
    \/ MemoryReadyTick(Fine)
    \/ MemoryShowTick(Fine)
    \/ MemoryInputTick(Fine)
    \/ MemorySuccessTick(Fine)
    \/ MemoryGameOverTick(Fine)
    \/ MemoryRestart(Fine)

SpecMemory == Init /\ [][NextMemory]_vars

(* The same, with the frames the loop keeps taking while a sequence is    *)
(* shown: clock.tick returns and the loop body runs again (main.py 379)   *)

SpecMemoryLive == SpecMemory /\ WF_vars(MemoryShowTick(Fine))

(* The same for the pause after a cleared level                           *)

SpecPauseLive == SpecMemory /\ WF_vars(MemorySuccessTick(Fine))

(* The selector and the sequence game again, in frames that let a second  *)
(* session follow a first one that cleared a level                        *)

NextRounds ==
    \/ ModeSelectTick(Rounds)
    \/ ReturnToSelector(Rounds)
    \/ MemoryReadyTick(Rounds)
    \/ MemoryShowTick(Rounds)
    \/ MemoryInputTick(Rounds)
    \/ MemorySuccessTick(Rounds)
    \/ MemoryGameOverTick(Rounds)
    \/ MemoryRestart(Rounds)

SpecRounds == Init /\ [][NextRounds]_vars

(* A session of the obstacle game as reset_titanic leaves it on the        *)
(* restart frame (the clock is counted from that frame), in frames short  *)
(* enough for a pair to be met on several frames in a row as it passes    *)
(* the avatar                                                             *)

InitSession ==
    /\ state = "titanic_playing"
    /\ now = 0
    /\ score = 0
    /\ InputInit
    /\ TitanicInit
    /\ MemoryInit
    /\ HistoryInit

NextSession == TitanicPlayingTick(Steady)

SpecSession == InitSession /\ [][NextSession]_vars

(* The same session in frames of half a second: the first pair meets the   *)
(* avatar, a hit is followed by its grace period and a pair that is not   *)
(* hit goes on to leave the screen                                        *)

NextPaced == TitanicPlayingTick(Paced)

SpecPaced == InitSession /\ [][NextPaced]_vars

(* The difficulty model: the playing branch, from a session of the        *)
(* obstacle game that holds any score up to MaxScore                      *)

InitScored ==
    /\ state = "titanic_playing"
    /\ now = 0
    /\ score \in 0..MaxScore
    /\ InputInit
    /\ TitanicInit
    /\ MemoryInit
    /\ HistoryInit

NextDifficulty == TitanicPlayingTick(Scored)

SpecDifficulty == InitScored /\ [][NextDifficulty]_vars

(* Player.update and create_player on their own, with frame times from 0  *)
(* to half a minute                                                       *)

PlayerUpdateStep ==
    \E dt_ms \in PlayerDts, up \in BOOLEAN, down \in BOOLEAN :
        /\ player' = PlayerUpdate(player, up, down, dt_ms)
        /\ UNCHANGED <<state, now, inputVars, icebergs, score, next_spawn,
                       lives_left, localVars, memVars, histVars>>

PlayerRespawnStep ==
    /\ player' = create_player
    /\ UNCHANGED <<state, now, inputVars, icebergs, score, next_spawn,
                   lives_left, localVars, memVars, histVars>>

NextPlayer == PlayerUpdateStep \/ PlayerRespawnStep

SpecPlayer == Init /\ [][NextPlayer]_vars

----------------------------------------------------------------------------
(* Properties *)

\* a frame of the playing branch: it starts in titanic_playing, or it is the
\* restart frame, which resets the session and goes on in the playing branch
PlayingFrame == state = "titanic_playing" /\ now' # now
RestartFrame == state = "titanic_game_over" /\ state' \in {"titanic_playing"}

\* C1: the bounds of lives_left in each state of the obstacle game
LivesBounds ==
    /\ lives_left \in 0..INITIAL_LIVES
    /\ state = "titanic_playing" => lives_left \in 1..INITIAL_LIVES
    /\ state = "titanic_game_over" => lives_left = 0

\* C1: what a step does to lives_left
LivesStep ==
    \* a (re)start gives 3 lives
    /\ state # "titanic_menu" /\ state' = "titanic_menu" => lives_left' = 3
    /\ RestartFrame => lives_left' = 3
    \* a playing frame with a hit takes exactly one life, one without takes none
    /\ PlayingFrame => lives_left' = (IF hit' THEN lives_left - 1 ELSE lives_left)
    \* nothing else changes lives_left
    /\ lives_left' # lives_left =>
           \/ PlayingFrame /\ hit'
           \/ RestartFrame
           \/ state' = "titanic_menu"
    \* game over is entered on the frame where lives_left reaches 0, and only there
    /\ (state # "titanic_game_over" /\ state' = "titanic_game_over")
           <=> (lives_left > 0 /\ lives_left' = 0)

\* C1: lives start at 3 on every (re)start, a hit in titanic_playing takes
\* exactly one life and nothing else changes lives, and titanic_game_over is
\* entered exactly on the frame where lives reaches 0; so titanic_playing
\* implies 1 <= lives <= 3 and titanic_game_over implies lives = 0 (three
\* hits of a fresh session end it).
C1_Lives == [](LivesBounds) /\ [][LivesStep]_vars

\* C1 witness: the third hit of a session has ended it
C1_Witness == state = "titanic_game_over" /\ hit /\ lives_left = 0

\* C2: a hit in titanic_playing that leaves lives keeps the state, puts the
\* avatar back at its default, vertically centred position, empties the
\* obstacle list, sets the spawn deadline to now + 1000 ms and leaves the
\* score alone.
C2_Respawn ==
    [][ PlayingFrame /\ hit' /\ lives_left' > 0 =>
            /\ state' = "titanic_playing"
            /\ player' = [x |-> WIDTH \div 4 - ShipWidth \div 2,
                          y |-> HEIGHT \div 2 - 32, w |-> ShipWidth, h |-> 64]
            /\ 2 * player'.y + player'.h = HEIGHT
            /\ icebergs' = <<>>
            /\ next_spawn' = now' + 1000
            /\ score' = score ]_vars

\* C2 witness: the frame after a first hit, with two lives left
C2_Witness ==
    /\ state = "titanic_playing" /\ hit /\ lives_left = 2
    /\ icebergs = <<>> /\ next_spawn = now + 1000

\* a frame of the input branch, and whether it appended to the buffer
InputFrame == state = "memory_input" /\ now' # now
Accepted   == Len(mem_player_inputs') = Len(mem_player_inputs) + 1
Completes  == InputFrame /\ Accepted
                  /\ Len(mem_player_inputs') >= Len(mem_sequence)

\* the indices, counted from 0, at which a full buffer differs from the sequence
Differing(inputs, seq) == {i \in 0..(Len(seq) - 1) : inputs[i + 1] # seq[i + 1]}
Elements(q) == {q[i] : i \in 1..Len(q)}

\* C3: when the press that completes the buffer leaves a differing index,
\* mismatchPositions becomes exactly the set of differing indices, best
\* becomes max(best, level - 1), level stays and the state becomes
\* memory_game_over; before the buffer is complete nothing is compared and
\* the state stays memory_input.
C3_Failure ==
    [][ /\ Completes /\ Differing(mem_player_inputs', mem_sequence) # {} =>
            /\ Elements(mem_mismatch_positions')
                   = Differing(mem_player_inputs', mem_sequence)
            /\ Len(mem_mismatch_positions')
                   = Cardinality(Differing(mem_player_inputs', mem_sequence))
            /\ mem_best_level' =
                   (IF mem_best_level >= mem_level - 1
                    THEN mem_best_level ELSE mem_level - 1)
            /\ mem_level' = mem_level
            /\ state' = "memory_game_over"
        /\ InputFrame /\ ~Completes =>
            /\ state' = "memory_input"
            /\ mem_mismatch_positions' = mem_mismatch_positions
            /\ mem_best_level' = mem_best_level
            /\ mem_level' = mem_level ]_vars

\* C3 witness: [U, D] answered [U, U] has failed at index 1
C3_Witness ==
    /\ state = "memory_game_over"
    /\ mem_sequence = <<"U", "D">> /\ mem_player_inputs = <<"U", "U">>
    /\ mem_mismatch_positions = <<1>>

\* C4: when the press that completes the buffer makes it equal to the
\* sequence, level grows by exactly 1, best becomes max(best, old level),
\* mismatchPositions stays empty and the state becomes memory_success.
C4_Success ==
    [][ Completes /\ Differing(mem_player_inputs', mem_sequence) = {} =>
            /\ mem_player_inputs' = mem_sequence
            /\ mem_level' = mem_level + 1
            /\ mem_best_level' =
                   (IF mem_best_level >= mem_level
                    THEN mem_best_level ELSE mem_level)
            /\ mem_best_level' >= mem_level
            /\ mem_mismatch_positions = <<>>
            /\ mem_mismatch_positions' = <<>>
            /\ state' = "memory_success" ]_vars

\* C4 witness: [U, D] answered [U, D] at level 2
C4_Witness ==
    /\ state = "memory_success" /\ mem_level = 3 /\ mem_best_level = 2
    /\ mem_sequence = <<"U", "D">> /\ mem_player_inputs = <<"U", "D">>

\* the rising edges of a step, from the levels of its frame and the one before
EdgeUp   == move_up' /\ ~move_up
EdgeDown == move_down' /\ ~move_down

\* C5: in memory_input a rising edge is appended exactly when at least
\* 200 ms have passed since the last accepted press (up first when both
\* buttons rise together); a frame that appends nothing leaves the buffer
\* and the time of the last accepted press as they were, so a rejected
\* press is lost.
C5_Debounce ==
    [][ InputFrame =>
            /\ Accepted <=> /\ EdgeUp \/ EdgeDown
                            /\ now' - mem_last_input_time >= 200
            /\ Accepted =>
                /\ mem_player_inputs' =
                       Append(mem_player_inputs, IF EdgeUp THEN "U" ELSE "D")
                /\ mem_last_input_time' = now'
            /\ ~Accepted =>
                /\ mem_player_inputs' = mem_player_inputs
                /\ mem_last_input_time' = mem_last_input_time ]_vars

\* C5 witness: down pressed 100 ms after an accepted up, and not taken
C5_Witness ==
    /\ state = "memory_input" /\ pressed_down /\ ~pressed_up
    /\ mem_player_inputs = <<"U">> /\ now - mem_last_input_time = 100

\* C6: the prev flags hold the levels of the frame just taken
PrevIsLast == prev_move_up = move_up /\ prev_move_down = move_down

\* C6: on every frame pressed = level and not the level of the frame
\* before, and the prev flags are updated; the input buffer grows by at
\* most one element a frame and only by the symbol of a button that went
\* from released to pressed on that frame, so a held button adds nothing.
C6_Edges ==
    /\ []PrevIsLast
    /\ [][ now' # now =>
            /\ pressed_up' = EdgeUp
            /\ pressed_down' = EdgeDown
            /\ InputFrame /\ ~Accepted => mem_player_inputs' = mem_player_inputs
            /\ InputFrame /\ Accepted =>
                LET sym == mem_player_inputs'[Len(mem_player_inputs')]
                IN  /\ sym = "U" => EdgeUp
                    /\ sym = "D" => EdgeDown
                    /\ sym \in {"U", "D"} ]_vars

\* C6 witness: up was taken once and is still held three frames later
C6_Witness ==
    /\ state = "memory_input" /\ move_up /\ ~pressed_up
    /\ mem_player_inputs = <<"U">> /\ now - mem_last_input_time >= 300

\* C7: the avatar's rectangle stays within the margins: top >= 20 and
\* bottom <= 540 - 20 = 520, after any updates and any respawn.
C7_AvatarInBounds ==
    /\ player.y >= 20
    /\ player.y + player.h <= 520
    /\ HEIGHT - PLAYER_MARGIN_TOP_BOTTOM = 520

\* C7 witness: an update has pinned the avatar at the bottom margin
C7_Witness == player.y + player.h = 520

\* C8: the level of a playing frame is min(10, score div 5 + 1) of the
\* score the frame starts with: within 1..10, not below the level of any
\* smaller score, k + 1 at score 5k for k in 0..9, and 10 from score 45 on.
C8_Level ==
    [][ PlayingFrame =>
            /\ level' = (IF score \div 5 + 1 <= 10 THEN score \div 5 + 1 ELSE 10)
            /\ level' \in 1..10
            /\ \A s \in 0..score : compute_level(s) <= level'
            /\ \A k \in 0..9 : score = 5 * k => level' = k + 1
            /\ score >= 45 => level' = 10 ]_vars

\* C8 witness: a frame that started with score 45 has computed level 10
C8_Witness == level = 10 /\ score = 45

\* C9: the difficulty of a playing frame comes from the score the frame
\* starts with: gap = max(140, 220 - 8(L-1)), speed = 4.00 + 0.45(L-1)
\* and interval = max(700, 1500 - 80(L-1)) for L = level(score); the gap
\* is at least 140 and the speed at least 4.0, a higher level never has a
\* larger gap or interval or a lower speed, score 5 gives 212, 4.45 and
\* 1420, and the pair spawned in the frame has that gap, has moved at that
\* speed and sets the deadline by that interval.
C9_Difficulty ==
    [][ PlayingFrame =>
            LET L == IF score \div 5 + 1 <= 10 THEN score \div 5 + 1 ELSE 10
                dt_ms == now' - now
            IN  /\ level' = L
                /\ gap' = (IF 220 - 8 * (L - 1) >= 140
                           THEN 220 - 8 * (L - 1) ELSE 140)
                /\ speed' = 400 + 45 * (L - 1)
                /\ spawn_interval_ms' = (IF 1500 - 80 * (L - 1) >= 700
                                         THEN 1500 - 80 * (L - 1) ELSE 700)
                /\ gap' >= 140 /\ speed' >= 400
                /\ level # 0 /\ level' >= level =>
                       /\ gap' <= gap /\ speed' >= speed
                       /\ spawn_interval_ms' <= spawn_interval_ms
                /\ score = 5 =>
                       gap' = 212 /\ speed' = 445 /\ spawn_interval_ms' = 1420
                /\ now' >= next_spawn /\ ~(hit' /\ lives_left' > 0) =>
                       /\ next_spawn' = now' + spawn_interval_ms'
                       /\ icebergs' # <<>>
                       /\ icebergs'[Len(icebergs')].gap = gap'
                       /\ icebergs'[Len(icebergs')].x =
                              (WIDTH + 40) * DT_DEN - speed' * dt_ms * 100 ]_vars

\* C9 witness: a frame that started with score 5 has spawned its pair
C9_Witness ==
    /\ score = 5 /\ level = 2 /\ gap = 212 /\ speed = 445
    /\ spawn_interval_ms = 1420
    /\ Len(icebergs) = 1 /\ icebergs[1].gap = 212

\* the frames that pass through memory_ready: the ones that start in it and
\* the restart frame, which enters it at level 1 and goes on in its branch
ReadyFrame      == state = "memory_ready" /\ now' # now
MemRestartFrame == state = "memory_game_over" /\ state' = "memory_show"

FreshRound(lvl) ==
    /\ state' = "memory_show"
    /\ mem_level' = lvl
    /\ Len(mem_sequence') = lvl
    /\ \A i \in 1..Len(mem_sequence') : mem_sequence'[i] \in {"U", "D"}
    /\ mem_show_index' = 0
    /\ mem_player_inputs' = <<>>
    /\ mem_mismatch_positions' = <<>>

\* C10: every frame that passes through memory_ready ends in memory_show
\* with a sequence of the length of the current level over {U, D}, reveal
\* index 0, and an empty input buffer and mismatch list.
C10_Ready ==
    [][ /\ ReadyFrame => FreshRound(mem_level)
        /\ MemRestartFrame => FreshRound(1) ]_vars

\* C10 witness: the round of level 2 has just been generated
C10_Witness ==
    /\ state = "memory_show" /\ mem_level = 2 /\ Len(mem_sequence) = 2
    /\ mem_show_index = 0 /\ mem_last_change = now /\ mem_player_inputs = <<>>

\* a frame of the show branch
ShowFrame == state = "memory_show" /\ now' # now

\* the longest frame of a profile, and the time within which a sequence of n
\* symbols is shown through: each phase runs over its duration by less than
\* one frame
FrameMax(pf) == CHOOSE d \in pf.dts : \A e \in pf.dts : e <= d
ShowBudget(n, pf) == n * (MEM_SHOW_MS + MEM_GAP_MS + 2 * FrameMax(pf))

\* C11: where the reveal stands: index within the sequence, and at least
\* 1000 ms behind the generation for each symbol shown, 650 more in a gap
ShowProgress ==
    state = "memory_show" =>
        /\ mem_show_index \in 0..(Len(mem_sequence) - 1)
        /\ mem_last_change >= h_generated + mem_show_index * (650 + 350)
                                  + (IF mem_showing_arrow THEN 0 ELSE 650)

\* C11: what a frame of the show branch does
ShowStep ==
    ShowFrame =>
        /\ mem_sequence' = mem_sequence
        /\ mem_showing_arrow =>
               /\ mem_showing_arrow' = ~(now' - mem_last_change >= 650)
               /\ mem_last_change' =
                      (IF mem_showing_arrow' THEN mem_last_change ELSE now')
               /\ mem_show_index' = mem_show_index
               /\ state' = "memory_show"
        /\ ~mem_showing_arrow /\ ~(now' - mem_last_change >= 350) =>
               /\ mem_show_index' = mem_show_index
               /\ mem_showing_arrow' = FALSE
               /\ mem_last_change' = mem_last_change
               /\ state' = "memory_show"
        /\ ~mem_showing_arrow /\ now' - mem_last_change >= 350 =>
               /\ mem_show_index' = mem_show_index + 1
               /\ IF mem_show_index + 1 < Len(mem_sequence)
                  THEN /\ state' = "memory_show"
                       /\ mem_showing_arrow' = TRUE
                       /\ mem_last_change' = now'
                  ELSE state' = "memory_input"
        /\ state' = "memory_input" =>
               /\ ~mem_showing_arrow
               /\ mem_show_index = Len(mem_sequence) - 1
               /\ Len(mem_sequence) = mem_level
               /\ now' >= h_generated + mem_level * (650 + 350)

\* the sequence has just been generated, early enough for the frames that
\* show it through to be within the clock readings of the profile
ShowStarted ==
    /\ state = "memory_show" /\ h_generated = now
    /\ now + ShowBudget(Len(mem_sequence), Fine) <= Fine.horizon

\* C11: in memory_show the symbols are revealed in order, one at a time: a
\* visible phase until at least 650 ms have passed, then a gap until at
\* least 350 ms have passed, then the index grows by 1; memory_input is
\* entered only when the gap of the last symbol ends, so not before
\* level * 1000 ms after the generation, and as long as frames are taken
\* it is always reached.
C11_Show ==
    /\ []ShowProgress
    /\ [][ShowStep]_vars
    /\ (ShowStarted ~> state = "memory_input")

\* C11 witness: the two symbols of level 2 have been shown through
C11_Witness ==
    /\ state = "memory_input" /\ mem_level = 2 /\ mem_show_index = 2
    /\ now >= h_generated + 2000 /\ mem_player_inputs = <<>>

\* a frame that runs the mode_select branch: it starts in mode_select, or it
\* handles M on a game-over screen and goes on in that branch
SelectorFrame ==
    /\ now' # now
    /\ \/ state = "mode_select"
       \/ state \in {"titanic_game_over", "memory_game_over"} /\ key' = "m"

\* C12: from mode_select the obstacle game is committed to only on a rising
\* up-edge and the sequence game only on a rising down-edge: a button that
\* was already held on the frame before (held while returning to the
\* selector from a game-over screen) selects nothing until it is released
\* and pressed again.
C12_EdgeSelect ==
    [][ SelectorFrame =>
            /\ state' = "titanic_menu" => EdgeUp
            /\ state' = "memory_ready" => EdgeDown
            /\ ~EdgeUp /\ ~EdgeDown => state' = "mode_select" ]_vars

\* a frame that starts on a game-over screen
GameOverFrame ==
    state \in {"titanic_game_over", "memory_game_over"} /\ now' # now

\* the session variables of the two games
gameVars == <<score, lives_left, player, icebergs, next_spawn, level,
              mem_level, mem_best_level, mem_sequence, mem_player_inputs,
              mem_mismatch_positions, mem_show_index>>

\* C13: titanic_game_over and memory_game_over are terminal: a frame with no
\* restart key and no M, whatever the buttons and the time, leaves the
\* state and the session variables of both games as they are; the state is
\* left only by the restart key (the handler sets titanic_playing or
\* memory_ready and the frame goes on in that branch) and by M (the handler
\* sets mode_select and the frame goes on in that branch).
C13_Terminal ==
    [][ GameOverFrame =>
            /\ key' = "none" => state' = state /\ UNCHANGED gameVars
            /\ state' # state => key' \in {"restart", "m"}
            /\ key' = "restart" =>
                   state' = (IF state = "titanic_game_over"
                             THEN "titanic_playing" ELSE "memory_show")
            /\ key' = "m" =>
                   state' = (IF move_up' THEN "titanic_menu"
                             ELSE IF move_down' THEN "memory_ready"
                             ELSE "mode_select") ]_vars

\* C13 witness: two frames with a button held went by on the memory
\* game-over screen
C13_Witness ==
    /\ state = "memory_game_over" /\ key = "none"
    /\ move_up /\ prev_move_up /\ ~pressed_up
    /\ now >= mem_last_input_time + 2 * 1700
    /\ mem_mismatch_positions # <<>>

\* C14: the restart key on the memory game-over screen re-enters
\* memory_ready with level 1 (the frame goes on in that branch and generates
\* the round of level 1) and leaves bestLevelReached as it was; selecting
\* the sequence game in the mode_select branch sets level 1 and leaves
\* bestLevelReached as it was.
C14_RestartKeepsBest ==
    [][ /\ state = "memory_game_over" /\ key' = "restart" =>
            /\ mem_level' = 1
            /\ mem_best_level' = mem_best_level
            /\ state' = "memory_show" /\ Len(mem_sequence') = 1
        /\ SelectorFrame /\ state' = "memory_ready" =>
            /\ mem_level' = 1
            /\ mem_best_level' = mem_best_level ]_vars

\* C14 witness: the sequence game was selected again after a session that
\* cleared level 1 and failed level 2
C14_Witness ==
    /\ state = "memory_ready" /\ key = "m"
    /\ mem_level = 1 /\ mem_best_level = 1

\* C15: bestLevelReached is at least 0 and at least the levels cleared in
\* the running session
BestCovers == mem_best_level >= 0 /\ mem_best_level >= mem_level - 1

\* a frame that clears a level: the full buffer equals the sequence
ClearFrame == state = "memory_input" /\ state' = "memory_success"

\* C15: bestLevelReached starts at 0, never decreases over frames, restarts,
\* returns to the selector and selections, changes only on a frame that
\* clears a level and is then the larger of its old value and the level
\* cleared: it is the highest level cleared so far in the run.
C15_BestMonotonic ==
    /\ mem_best_level = 0
    /\ []BestCovers
    /\ [][ /\ mem_best_level' >= mem_best_level
           /\ mem_best_level' # mem_best_level =>
                  ClearFrame /\ mem_best_level' = mem_level
           /\ ClearFrame =>
                  /\ mem_player_inputs' = mem_sequence
                  /\ Len(mem_sequence) = mem_level
                  /\ mem_best_level' = (IF mem_best_level >= mem_level
                                        THEN mem_best_level ELSE mem_level) ]_vars

\* C15 witness: a later session has failed level 1 after an earlier one
\* cleared it
C15_Witness ==
    /\ state = "memory_game_over" /\ mem_level = 1 /\ mem_best_level = 1
    /\ mem_mismatch_positions = <<0>>

\* whether the playing frame spawns, how far it moves a pair (in units of
\* 1/166667 px), and whether it ends in a respawn or in game over
SpawnsNow  == now' >= next_spawn
MovedX(ib) == ib.x - speed' * (now' - now) * 100
Respawns   == hit' /\ lives_left' > 0
SessionGoesOn == state' = "titanic_playing" /\ ~Respawns

\* the pairs of the list after the frame that are pairs of the list before
\* it: the prune takes pairs from the front, the spawn adds one at the end
Pruned == Len(icebergs) + (IF SpawnsNow THEN 1 ELSE 0) - Len(icebergs')
Before(i) == icebergs[i + Pruned]
IsOld(i)  == i + Pruned <= Len(icebergs)

\* the star of a pair at x (in 1/166667 px) and height sy touches the full
\* rectangle p: a 32 x 32 square centred at (int(x + 60), sy)
TouchesStar(p, x, sy) ==
    LET cx == IntTrunc(x + 60 * DT_DEN, DT_DEN)
    IN  /\ p.x < cx + 16 /\ cx - 16 < p.x + p.w
        /\ p.y < sy + 16 /\ sy - 16 < p.y + p.h

\* the pairs of the new list whose star was picked up in this frame
Gained ==
    {i \in 1..Len(icebergs') :
        /\ icebergs'[i].star_collected
        /\ ~(IsOld(i) /\ Before(i).star_collected)}

\* C16: the score is at least 0 and at most the pairs spawned since the reset
ScoreBounds == score >= 0 /\ score <= h_spawned

\* C16: what a playing frame does to the score and to the stars
ScoreStep ==
    PlayingFrame =>
        /\ score' >= score
        /\ ~SessionGoesOn => score' = score
        /\ SessionGoesOn =>
               /\ Pruned >= 0
               /\ score' = score + Cardinality(Gained)
               \* a star is picked up exactly when it is uncollected and touched
               /\ \A i \in 1..Len(icebergs') :
                      /\ icebergs'[i].star_collected <=>
                             \/ IsOld(i) /\ Before(i).star_collected
                             \/ TouchesStar(player', icebergs'[i].x,
                                            icebergs'[i].star_y)
                      /\ IsOld(i) =>
                             /\ icebergs'[i].x = MovedX(Before(i))
                             /\ icebergs'[i].star_y = Before(i).star_y
               \* every pair still on screen is kept, picked up or not
               /\ \A j \in 1..Len(icebergs) :
                      MovedX(icebergs[j]) + 120 * DT_DEN >= -10 * DT_DEN =>
                          /\ j - Pruned \in 1..Len(icebergs')
                          /\ icebergs'[j - Pruned].x = MovedX(icebergs[j])

\* C16: within a session of the obstacle game the score is a counter from 0
\* that never decreases and changes only by pickups: a pair's star adds
\* exactly 1 on the frame it is first touched, is then marked collected and
\* adds nothing when touched again, so the score never exceeds the pairs
\* spawned in the session; a pickup leaves the pair in the list.
C16_Score == []ScoreBounds /\ [][ScoreStep]_vars

\* C16 witness: the first pair has been picked up, is still in the list and
\* still touches the avatar on the second frame of its passage
C16_Witness ==
    /\ score = 1 /\ ~hit /\ Len(icebergs) >= 1
    /\ icebergs[1].star_collected
    /\ XInt(icebergs[1]) < 200
    /\ TouchesStar(player, icebergs[1].x, icebergs[1].star_y)

\* the avatar after the update of the frame, and its collision rectangle:
\* int(w * 0.2) and int(h * 0.2) taken off, half on each side
Updated == PlayerUpdate(player, move_up', move_down', now' - now)
ShrunkAvatar(p) ==
    LET sw == (p.w * 2) \div 10
        sh == (p.h * 2) \div 10
    IN  [x |-> p.x + sw \div 2, y |-> p.y + sh \div 2,
         w |-> p.w - sw, h |-> p.h - sh]

\* the slit of a pair whose left edge is at pixel X: 1 px wide, 59 px in
\* from the left edge of the 120, over the heights of the two obstacles
InSlit(a, X, gy, g) ==
    /\ a.x < X + 60 /\ X + 59 < a.x + a.w
    /\ \/ gy - g \div 2 > 0 /\ a.y < gy - g \div 2
       \/ gy + g \div 2 < HEIGHT /\ a.y + a.h > gy + g \div 2

\* the same with the full 120 px of the obstacles
InFullWidth(a, X, gy, g) ==
    /\ a.x < X + 120 /\ X < a.x + a.w
    /\ \/ gy - g \div 2 > 0 /\ a.y < gy - g \div 2
       \/ gy + g \div 2 < HEIGHT /\ a.y + a.h > gy + g \div 2

\* C17: the collision rectangles of every pair are 1 px wide (1 % of the
\* 120), 59 px in from the left edge, and as high as the two obstacles
SlitShape ==
    \A j \in 1..Len(icebergs) :
        \E c \in {CollisionRects(icebergs[j])} :
            /\ icebergs[j].width = 120
            /\ c[1].w = 1 /\ c[2].w = 1
            /\ c[1].x = XInt(icebergs[j]) + 59 /\ c[2].x = c[1].x
            /\ c[1].y = 0 /\ c[1].h = icebergs[j].gap_y - icebergs[j].gap \div 2
            /\ c[2].y = icebergs[j].gap_y + icebergs[j].gap \div 2
            /\ c[2].y + c[2].h = HEIGHT

\* C17: a playing frame is a hit exactly when the shrunk rectangle of the
\* updated avatar meets the slit of a pair of the list as moved by the
\* frame; the slit is 1 px of the 120 (1 %), centred, so an avatar inside
\* the rest of the full width is not hit; unless the frame respawns, the
\* avatar it leaves is the updated one.
C17_Hit ==
    /\ []SlitShape
    /\ [][ PlayingFrame =>
               \E u \in {Updated} : \E a \in {ShrunkAvatar(u)} :
                   /\ hit' <=>
                          \E j \in 1..Len(icebergs) :
                              InSlit(a, IntTrunc(MovedX(icebergs[j]), DT_DEN),
                                     icebergs[j].gap_y, icebergs[j].gap)
                   /\ ~Respawns => player' = u ]_vars

\* C17 witness: the shrunk avatar is inside the full width of an obstacle,
\* beside its slit, and the frame was no hit
C17_Witness ==
    /\ state = "titanic_playing" /\ ~hit /\ Len(icebergs) >= 1
    /\ InFullWidth(ShrunkAvatar(player), XInt(icebergs[1]),
                   icebergs[1].gap_y, icebergs[1].gap)
    /\ ~InSlit(ShrunkAvatar(player), XInt(icebergs[1]),
               icebergs[1].gap_y, icebergs[1].gap)

\* C18: committing to the obstacle game in the mode_select branch resets its
\* session (score 0, 3 lives, no obstacles, the avatar at its default
\* position, spawn deadline 1000 ms after the frame's clock reading), and
\* committing to the sequence game resets its session (level 1, empty
\* sequence, empty input buffer, empty mismatch list), whatever an earlier
\* session of either game has left.
C18_SelectResets ==
    [][ SelectorFrame =>
            /\ state' = "titanic_menu" =>
                   /\ score' = 0 /\ lives_left' = 3 /\ icebergs' = <<>>
                   /\ player'.x + player'.w \div 2 = WIDTH \div 4
                   /\ player'.y + player'.h \div 2 = HEIGHT \div 2
                   /\ player'.h = 64
                   /\ next_spawn' = now' + 1000
            /\ state' = "memory_ready" =>
                   /\ mem_level' = 1 /\ mem_sequence' = <<>>
                   /\ mem_player_inputs' = <<>>
                   /\ mem_mismatch_positions' = <<>> ]_vars

\* C18 witness: the obstacle game was selected anew from the game-over
\* screen of an earlier session, whose last frame was a hit
C18_Witness ==
    /\ state = "titanic_menu" /\ key = "m" /\ hit
    /\ level = 1 /\ score = 0 /\ lives_left = 3 /\ icebergs = <<>>

\* C19: on the menu of the obstacle game, M returns to the mode selector.
C19_MenuReturns ==
    [][ state = "titanic_menu" /\ key' = "m" => state' = "mode_select" ]_vars

\* the avatar is held against a boundary of its clamp
Pinned(p) ==
    \/ p.y = PLAYER_MARGIN_TOP_BOTTOM
    \/ p.y + p.h = HEIGHT - PLAYER_MARGIN_TOP_BOTTOM

\* C20, as stated: a playing frame whose updated avatar is pinned against
\* the top or bottom boundary of the clamp is a hit and takes a life.
C20_PinnedIsHit ==
    [][ PlayingFrame /\ Pinned(Updated) =>
            hit' /\ lives_left' = lives_left - 1 ]_vars

\* C20, amended: the out-of-bounds test never makes a hit: the updated
\* avatar has its top at 20 or more and its bottom at 520 or less, never at
\* or beyond 0 or 540; a frame whose avatar is pinned against a boundary is
\* a hit only if a pair of the list reaches the avatar's columns, and with
\* no pair on screen it is no hit and takes no life.
C20_PinnedIsSafe ==
    [][ PlayingFrame =>
            \E u \in {Updated} :
                /\ u.y >= 20 /\ u.y + u.h <= HEIGHT - 20
                /\ u.y > 0 /\ u.y + u.h < HEIGHT
                /\ Pinned(u) /\ hit' =>
                       \E j \in 1..Len(icebergs) :
                           /\ MovedX(icebergs[j]) < (u.x + u.w) * DT_DEN
                           /\ MovedX(icebergs[j]) + 120 * DT_DEN > u.x * DT_DEN
                /\ Pinned(u) /\ icebergs = <<>> =>
                       ~hit' /\ lives_left' = lives_left /\ player' = u ]_vars

\* C20 witness: the avatar has been held against the top boundary for
\* frames on end and the session still has its three lives
C20_Witness ==
    /\ state = "titanic_playing" /\ player.y = 20
    /\ move_up /\ prev_move_up /\ now >= 1500
    /\ ~hit /\ lives_left = 3

\* the pairs of the list before the frame whose star is not collected yet
\* and, once the pair is moved, touches the full rectangle of the updated
\* avatar
TouchedStars ==
    {j \in 1..Len(icebergs) :
        /\ ~icebergs[j].star_collected
        /\ TouchesStar(Updated, MovedX(icebergs[j]), icebergs[j].star_y)}

\* C21, as stated: in every playing frame, one with a hit included, each
\* uncollected star the full rectangle of the avatar touches adds 1 to the
\* score.
C21_PickupAlways ==
    [][ PlayingFrame => score' = score + Cardinality(TouchedStars) ]_vars

\* C21, amended: in a playing frame without a hit each uncollected star the
\* full rectangle of the avatar touches is marked collected and adds 1 to
\* the score; in a frame with a hit no star is picked up: the score stays,
\* and the list is emptied (lives left) or kept as the advance left it, its
\* stars unmarked (game over).
C21_PickupUnlessHit ==
    [][ PlayingFrame =>
            /\ ~hit' =>
                   /\ score' = score + Cardinality(TouchedStars)
                   /\ \A j \in TouchedStars :
                          /\ j - Pruned \in 1..Len(icebergs')
                          /\ icebergs'[j - Pruned].star_collected
            /\ hit' =>
                   /\ score' = score
                   /\ IF lives_left' > 0 THEN icebergs' = <<>>
                      ELSE \A j \in TouchedStars :
                               /\ j - Pruned \in 1..Len(icebergs')
                               /\ ~icebergs'[j - Pruned].star_collected ]_vars

\* C21 witness: the session ended on a frame whose avatar touches a star
\* that stays uncollected
C21_Witness ==
    /\ state = "titanic_game_over" /\ hit
    /\ \E i \in 1..Len(icebergs) :
           /\ ~icebergs[i].star_collected
           /\ TouchesStar(player, icebergs[i].x, icebergs[i].star_y)

\* the playing frame has spawned a pair
SpawnedNow == h_spawned' = h_spawned + 1

\* the spawn interval of a level, as the claim gives it
IntervalAt(l) == IF 1500 - 80 * (l - 1) >= 700 THEN 1500 - 80 * (l - 1) ELSE 700

\* C22: while a session runs, the deadline lies 1000 ms or more after the
\* last reset or respawn and, once a pair has been spawned since, one spawn
\* interval (700 ms or more) after the last spawn
DeadlineKept ==
    state = "titanic_playing" =>
        /\ next_spawn >= h_grace_from + 1000
        /\ h_spawn_at >= 0 =>
               /\ next_spawn - h_spawn_at >= 700
               /\ \E l \in 1..10 : next_spawn = h_spawn_at + IntervalAt(l)

\* C22: what a playing frame does about the spawn
SpawnStep ==
    PlayingFrame =>
        /\ SpawnedNow <=> now' >= next_spawn
        /\ h_spawned' \in {h_spawned, h_spawned + 1}
        /\ Len(icebergs') <= Len(icebergs) + 1
        /\ SpawnedNow =>
               /\ now' >= h_grace_from + 1000
               /\ h_spawn_at >= 0 =>
                      /\ now' - h_spawn_at >= IntervalAt(level')
                      /\ now' - h_spawn_at >= 700
        \* the new pair starts at WIDTH + 40 and is advanced with the others
        /\ SpawnedNow /\ ~hit' =>
               /\ icebergs' # <<>>
               /\ icebergs'[Len(icebergs')].x =
                      (960 + 40) * DT_DEN - speed' * (now' - now) * 100
               /\ ~icebergs'[Len(icebergs')].star_collected
               /\ next_spawn' = now' + IntervalAt(level')
        \* a respawn in the same frame puts its grace period in its place
        /\ Respawns => next_spawn' = now' + 1000
        /\ ~SpawnedNow /\ ~Respawns => next_spawn' = next_spawn

\* C22: in titanic_playing a pair is spawned in a frame exactly when the
\* clock has reached the spawn deadline, at most one a frame, at x = 960 +
\* 40, and the deadline becomes now + spawnInterval(level); so none is
\* spawned within 1000 ms of a session start or a respawn, and two spawns
\* with no hit between them are at least spawnInterval(level) >= 700 ms
\* apart.
C22_Spawn == []DeadlineKept /\ [][SpawnStep]_vars

\* C22 witness: the first pair after a respawn, spawned on the frame that
\* ends the 1000 ms of grace
C22_Witness ==
    /\ state = "titanic_playing" /\ lives_left = 2
    /\ h_grace_from = 4000 /\ h_spawn_at = 5000 /\ Len(icebergs) = 1
    /\ next_spawn = 6500

\* where a playing frame moves a pair to (in 1/166667 px): x - speed * dt
\* with speed = 4.0 + 0.45 (level - 1) and dt = dt_ms / 16.6667
AdvancedX(ib) == ib.x - (400 + 45 * (level' - 1)) * (now' - now) * 100
GoneOff(ib)   == AdvancedX(ib) + ib.width * DT_DEN < -10 * DT_DEN

\* C23: every pair of the list has x + width >= -10
OnScreen ==
    \A i \in 1..Len(icebergs) :
        icebergs[i].x + icebergs[i].width * DT_DEN >= -10 * DT_DEN

\* C23: what a frame does to the pairs
PairsStep ==
    /\ PlayingFrame /\ Respawns => icebergs' = <<>>
    /\ PlayingFrame /\ ~Respawns =>
           /\ Pruned = Cardinality({j \in 1..Len(icebergs) : GoneOff(icebergs[j])})
           /\ \A j \in 1..Len(icebergs) :
                  IF GoneOff(icebergs[j])
                  THEN j - Pruned < 1
                  ELSE /\ j - Pruned \in 1..Len(icebergs')
                       /\ icebergs'[j - Pruned].x = AdvancedX(icebergs[j])
                       /\ icebergs'[j - Pruned].x < icebergs[j].x
                       /\ icebergs'[j - Pruned].gap_y = icebergs[j].gap_y
    /\ ~PlayingFrame =>
           \/ icebergs' = icebergs
           \/ icebergs' = <<>> /\ h_grace_from' = now'

\* C23: in every playing frame each pair's x decreases by speed * dt and
\* then every pair with x + width < -10 is removed: at the end of a frame
\* every pair has x + width >= -10, no pair's x grows, and pairs leave the
\* list only by going off screen, by the clear of a non-fatal hit or by a
\* reset.
C23_AdvancePrune == []OnScreen /\ [][PairsStep]_vars

\* C23 witness: with no hit so far the first of four pairs has left the
\* screen, one frame after it stood at x = -40 and was kept
C23_Witness ==
    /\ state = "titanic_playing" /\ lives_left = 3
    /\ h_spawned = 4 /\ Len(icebergs) = 3
    /\ XInt(icebergs[1]) > 0

\* a frame of the pause after a cleared level
SuccessFrame == state = "memory_success" /\ now' # now

\* C24: the pause is counted from the completing press and has not run out
\* while the state is memory_success
PauseRunning ==
    state = "memory_success" =>
        /\ mem_last_change = mem_last_input_time
        /\ now - mem_last_change < 1000

\* C24: what a frame of the pause does
PauseStep ==
    SuccessFrame =>
        /\ state' = (IF now' - mem_last_change >= 1000
                     THEN "memory_ready" ELSE "memory_success")
        /\ UNCHANGED <<mem_level, mem_sequence, mem_player_inputs,
                       mem_best_level, mem_mismatch_positions,
                       mem_last_change, mem_last_input_time, mem_show_index>>

\* the level has just been cleared, early enough for the frames of the
\* pause to be within the clock readings of the profile
PauseStarted ==
    /\ state = "memory_success" /\ mem_last_change = now
    /\ now + 1000 + FrameMax(Fine) <= Fine.horizon

\* C24: memory_success is a pure pause: whatever the buttons, the state
\* stays and level, sequence, input buffer and bestLevelReached are
\* unchanged until 1000 ms have passed since the completing press; the
\* first frame at or after 1000 ms moves to memory_ready, and as long as
\* frames are taken this always happens.
C24_Pause ==
    /\ []PauseRunning
    /\ [][PauseStep]_vars
    /\ (PauseStarted ~> state = "memory_ready")

\* C24 witness: the pause after level 1 has ended on the frame 1000 ms after
\* the completing press, with a button held
C24_Witness ==
    /\ state = "memory_ready" /\ mem_level = 2 /\ mem_best_level = 1
    /\ now = mem_last_change + 1000 /\ move_down /\ prev_move_down

\* C25: bestLevelReached is never less than level - 1
BestAtLeastCleared == mem_best_level >= mem_level - 1

\* a frame that fails a round: the full buffer differs from the sequence
FailFrame == state = "memory_input" /\ state' = "memory_game_over"

\* C25: in every reachable state bestLevelReached >= level - 1; so the
\* update max(bestLevelReached, level - 1) of a failed round leaves
\* bestLevelReached as it was, and only a fully correct round changes it.
C25_FailureKeepsBest ==
    /\ []BestAtLeastCleared
    /\ [][ /\ FailFrame =>
                  /\ mem_best_level' = mem_best_level
                  /\ mem_player_inputs' # mem_sequence
           /\ mem_best_level' # mem_best_level =>
                  /\ state = "memory_input" /\ state' = "memory_success"
                  /\ mem_player_inputs' = mem_sequence ]_vars

\* C25 witness: level 2 was failed with level 1 cleared before
C25_Witness ==
    /\ state = "memory_game_over" /\ mem_level = 2 /\ mem_best_level = 1
    /\ Len(mem_player_inputs) = 2 /\ mem_mismatch_positions # <<>>

\* C26: the phases of the sequence game agree with its data: level >= 1;
\* in memory_show and memory_input the sequence is as long as the level,
\* and in memory_input the buffer is shorter than the sequence and the
\* mismatch list empty; in memory_game_over buffer and sequence are as long
\* as the level and the mismatch list is not empty; in memory_success the
\* buffer equals the sequence and their length is level - 1.
C26_Phases ==
    /\ mem_level >= 1
    /\ state \in {"memory_show", "memory_input"} =>
           Len(mem_sequence) = mem_level
    /\ state = "memory_input" =>
           /\ Len(mem_player_inputs) < Len(mem_sequence)
           /\ mem_mismatch_positions = <<>>
    /\ state = "memory_game_over" =>
           /\ Len(mem_player_inputs) = Len(mem_sequence)
           /\ Len(mem_sequence) = mem_level
           /\ mem_mismatch_positions # <<>>
    /\ state = "memory_success" =>
           /\ mem_player_inputs = mem_sequence
           /\ Len(mem_sequence) = mem_level - 1

\* C26 witness: level 2 has just been cleared
C26_Witness ==
    /\ state = "memory_success" /\ mem_level = 3
    /\ Len(mem_sequence) = 2 /\ mem_player_inputs = mem_sequence
    /\ mem_mismatch_positions = <<>>

====
